---- MODULE Spec2Model ----
(***************************************************************************)
(* Model of src/dns.c (chinadns-ng): the DNS wire-format validator.         *)
(*                                                                         *)
(*   decode_name      "\3www\6google\3com\0" => "www.google.com"            *)
(*   check_packet     structural validation of a query / reply             *)
(*   skip_name        step over one (possibly compressed) record name      *)
(*   dns_chnip_check  find the first A/AAAA answer and ask the ipset        *)
(*                                                                         *)
(* Memory is a sequence of bytes (0..255); C offsets are 0-based, so the   *)
(* byte at offset k of b is b[k+1].  Every operator that models a C        *)
(* function also returns the set of offsets it read (and, for the name     *)
(* decoder, the set of output offsets it wrote), so that memory safety is  *)
(* a property of the model and not an assumption.                          *)
(***************************************************************************)
EXTENDS Integers, Sequences, FiniteSets

VARIABLES
    buf,        \* the caller's buffer; packet_len is Len(buf)
    junk,       \* what a read past the end of buf would return
    pc,         \* position of the caller
    is_query,   \* direction argument of the last check_packet call
    name_buf,   \* TRUE when the caller passed a name buffer
    p_namelen,  \* TRUE when the caller passed a namelen slot
    out,        \* bytes written to the name buffer, from offset 0
    slot,       \* the value held by the caller's namelen slot
    verdict,    \* boolean returned by the last call
    reads,      \* offsets of buf read so far
    writes,     \* offsets of the name buffer written so far
    cursor,     \* packet_buf - start of the buffer (dns_chnip_check, skip_name)
    rem,        \* the remaining length (packet_len / *p_len)
    i,          \* loop counter of dns_chnip_check
    answer_count, \* ntohs(h->answer_count)
    result,     \* value returned by dns_chnip_check
    queries     \* calls made to ipset_addr_is_exists, in order

vars == <<buf, junk, pc, is_query, name_buf, p_namelen, out, slot, verdict,
          reads, writes, cursor, rem, i, answer_count, result, queries>>

(***************************************************************************)
(* Constants of dns.h / net.h (RFC 1035 wire format).                      *)
(***************************************************************************)
SIZEOF_dns_header_t == 12
SIZEOF_dns_query_t == 4
SIZEOF_dns_record_t == 10
DNS_NAME_ENC_MINLEN == 1
DNS_NAME_ENC_MAXLEN == 255
DNS_PACKET_MINSIZE == SIZEOF_dns_header_t + DNS_NAME_ENC_MINLEN + SIZEOF_dns_query_t
DNS_PACKET_MAXSIZE == 1472
DNS_DNAME_LABEL_MAXLEN == 63
DNS_DNAME_COMPRESSION_MINVAL == 192
DNS_QR_QUERY == 0
DNS_QR_REPLY == 1
DNS_OPCODE_QUERY == 0
DNS_CLASS_INTERNET == 1
DNS_RECORD_TYPE_A == 1
DNS_RECORD_TYPE_AAAA == 28
IPV4_BINADDR_LEN == 4
IPV6_BINADDR_LEN == 16
DNS_IPCHK_IS_CHNIP == "IS_CHNIP"
DNS_IPCHK_NOT_CHNIP == "NOT_CHNIP"
DNS_IPCHK_NOT_FOUND == "NOT_FOUND"
DNS_IPCHK_BAD_PACKET == "BAD_PACKET"
NO_RESULT == "none"

DOT == 46

(***************************************************************************)
(* Memory access.                                                          *)
(***************************************************************************)
\* *(const uchar *)(b + off); a read outside the buffer yields junk
At(b, off) == IF off >= 0 /\ off < Len(b) THEN b[off + 1] ELSE junk

\* ntohs of the 16-bit field at offset off
ntohs(b, off) == At(b, off) * 256 + At(b, off + 1)

\* the bytes b[from .. from+n-1] (0-based), junk where outside
Slice(b, from, n) == [k \in 1..n |-> At(b, from + k - 1)]

Min(S) == CHOOSE x \in S : \A y \in S : x <= y
Max(S) == CHOOSE x \in S : \A y \in S : x >= y

(***************************************************************************)
(* decode_name (dns.c 12-51).  src is the memory b at offset base.         *)
(***************************************************************************)
\* line 22: memcpy(out, src + 1, --len): the decremented len is both the
\* number of bytes copied and the length the label loop starts from
\* (variant: the decrement forgotten)
decode_copy_len_off(len) == len
decode_copy_len(len) == len - 1

\* lines 28-39: the three rejections of a label length byte, len being the
\* length left after the byte itself
\* (variant: the zero-length check missing)
decode_label_bad_nozero(label_len, len) ==
    label_len > DNS_DNAME_LABEL_MAXLEN \/ label_len > len
decode_label_bad(label_len, len) ==
    \/ label_len < 1
    \/ label_len > DNS_DNAME_LABEL_MAXLEN
    \/ label_len > len

\* lines 25-50: the label loop and the final check.  s and o are the
\* distances src and out have advanced; first is the loop's flag.
RECURSIVE decode_loop(_, _, _, _, _, _, _, _, _)
decode_loop(b, base, len, s, o, first, ob, rd, wr) ==
    IF len >= 2
    THEN LET ob1 == IF first \/ o + 1 > Len(ob) THEN ob
                    ELSE [ob EXCEPT ![o + 1] = DOT]
             wr1 == IF first THEN wr ELSE wr \cup {o}
             o1 == IF first THEN o ELSE o + 1
             label_len == At(b, base + s)
             rd1 == rd \cup {base + s}
             len1 == len - 1
         IN  IF decode_label_bad(label_len, len1)
             THEN [ok |-> FALSE, out |-> ob1, reads |-> rd1, writes |-> wr1]
             ELSE decode_loop(b, base, len1 - label_len, s + 1 + label_len,
                              o1 + label_len, FALSE, ob1, rd1, wr1)
    ELSE [ok |-> len = 0, out |-> ob, reads |-> rd, writes |-> wr]

decode_name(b, base, len) ==
    IF len <= DNS_NAME_ENC_MINLEN
    THEN [ok |-> TRUE, out |-> <<DOT, 0>>, reads |-> {}, writes |-> {0, 1}]
    ELSE LET n == decode_copy_len(len)
         IN  decode_loop(b, base, n, 0, 0, TRUE,
                         Slice(b, base + 1, n),
                         {base + k : k \in 1..n},
                         {k - 1 : k \in 1..n})

(***************************************************************************)
(* check_packet (dns.c 54-132).                                            *)
(***************************************************************************)
\* lines 59-66: the packet length checks
check_len_ok(packet_len) ==
    packet_len >= DNS_PACKET_MINSIZE /\ packet_len <= DNS_PACKET_MAXSIZE

\* header->qr and header->opcode: bit 7 and bits 3..6 of the byte at offset 2
header_qr(b) == At(b, 2) \div 128
header_opcode(b) == (At(b, 2) \div 8) % 16

\* line 70: the direction the caller asked for
\* (variant: the direction argument ignored)
expected_qr_same(isq) == DNS_QR_QUERY
expected_qr(isq) == IF isq THEN DNS_QR_QUERY ELSE DNS_QR_REPLY

\* line 78
question_count_ok(b) == ntohs(b, 4) = 1

\* line 89: memchr(packet_buf, 0, n): distance of the first zero byte from
\* offset from, or -1 when none of the n bytes is zero
memchr0(b, from, n) ==
    LET zs == {k \in 0..(n - 1) : At(b, from + k) = 0}
    IN  IF zs = {} THEN -1 ELSE Min(zs)

\* the offsets memchr looked at
memchr0_reads(b, from, n) ==
    LET z == memchr0(b, from, n)
    IN  {from + k : k \in 0..(IF z < 0 THEN n - 1 ELSE z)}

\* lines 97-104
\* (variant: the upper bound missing)
namelen_ok_nomax(namelen) == namelen >= DNS_NAME_ENC_MINLEN
namelen_ok(namelen) ==
    namelen >= DNS_NAME_ENC_MINLEN /\ namelen <= DNS_NAME_ENC_MAXLEN

\* line 107: the name is decoded only when a buffer was passed
decodes_name(nb) == nb

\* line 119
query_fits(len) == len >= SIZEOF_dns_query_t

\* line 126
qclass_ok(b, off) == ntohs(b, off + 2) = DNS_CLASS_INTERNET

\* a return value of check_packet: the verdict, the name buffer's content,
\* the namelen slot's value, and what was read and written
CheckResult(ok, ob, sl, rd, wr) ==
    [ok |-> ok, out |-> ob, slot |-> sl, reads |-> rd, writes |-> wr]

\* lines 83-131: from the question section on; hdr is what the header
\* checks read
check_question(b, packet_len, nb, pn, slot0, hdr) ==
    LET base == SIZEOF_dns_header_t
        len == packet_len - SIZEOF_dns_header_t
        z == memchr0(b, base, len)
        rd1 == hdr \cup memchr0_reads(b, base, len)
        namelen == z + 1
    IN  IF z < 0 THEN CheckResult(FALSE, <<>>, slot0, rd1, {})
        ELSE IF ~namelen_ok(namelen) THEN CheckResult(FALSE, <<>>, slot0, rd1, {})
        ELSE LET d == IF decodes_name(nb) THEN decode_name(b, base, namelen)
                      ELSE [ok |-> TRUE, out |-> <<>>, reads |-> {}, writes |-> {}]
                 rd2 == rd1 \cup d.reads
             IN  IF ~d.ok THEN CheckResult(FALSE, d.out, slot0, rd2, d.writes)
                 ELSE LET sl == IF pn THEN namelen ELSE slot0
                          q == base + namelen
                          qlen == len - namelen
                      IN  IF ~query_fits(qlen)
                          THEN CheckResult(FALSE, d.out, sl, rd2, d.writes)
                          ELSE IF ~qclass_ok(b, q)
                          THEN CheckResult(FALSE, d.out, sl,
                                           rd2 \cup {q + 2, q + 3}, d.writes)
                          ELSE CheckResult(TRUE, d.out, sl,
                                           rd2 \cup {q + 2, q + 3}, d.writes)

check_packet(isq, b, packet_len, nb, pn, slot0) ==
    IF ~check_len_ok(packet_len) THEN CheckResult(FALSE, <<>>, slot0, {}, {})
    ELSE IF header_qr(b) # expected_qr(isq)
    THEN CheckResult(FALSE, <<>>, slot0, {2}, {})
    ELSE IF header_opcode(b) # DNS_OPCODE_QUERY
    THEN CheckResult(FALSE, <<>>, slot0, {2}, {})
    ELSE IF ~question_count_ok(b)
    THEN CheckResult(FALSE, <<>>, slot0, {2, 4, 5}, {})
    ELSE check_question(b, packet_len, nb, pn, slot0, {2, 4, 5})

\* lines 222-229: the two entry points
dns_query_check(b, packet_len, nb, pn, slot0) ==
    check_packet(TRUE, b, packet_len, nb, pn, slot0)
dns_reply_check(b, packet_len, nb, pn, slot0) ==
    check_packet(FALSE, b, packet_len, nb, pn, slot0)

(***************************************************************************)
(* skip_name (dns.c 138-169).                                              *)
(***************************************************************************)
\* line 148
\* (variant: every byte above 63 taken for a pointer)
is_compression_ptr_64(label_len) == label_len > DNS_DNAME_LABEL_MAXLEN
is_compression_ptr(label_len) == label_len >= DNS_DNAME_COMPRESSION_MINVAL

\* line 161
record_header_fits(len) == len >= SIZEOF_dns_record_t

\* lines 142-159: the loop; bad is the return at line 154
RECURSIVE skip_loop(_, _, _, _)
skip_loop(b, ptr, len, rd) ==
    IF len > 0
    THEN LET label_len == At(b, ptr)
             rd1 == rd \cup {ptr}
         IN  IF label_len = 0
             THEN [bad |-> FALSE, ptr |-> ptr + 1, len |-> len - 1, reads |-> rd1]
             ELSE IF is_compression_ptr(label_len)
             THEN [bad |-> FALSE, ptr |-> ptr + 2, len |-> len - 2, reads |-> rd1]
             ELSE IF label_len > DNS_DNAME_LABEL_MAXLEN
             THEN [bad |-> TRUE, ptr |-> ptr, len |-> len, reads |-> rd1]
             ELSE skip_loop(b, ptr + 1 + label_len, len - (1 + label_len), rd1)
    ELSE [bad |-> FALSE, ptr |-> ptr, len |-> len, reads |-> rd]

\* *p_ptr and *p_len are written only on success (lines 166-167)
skip_name(b, ptr, len) ==
    LET r == skip_loop(b, ptr, len, {})
    IN  IF r.bad \/ ~record_header_fits(r.len)
        THEN [ok |-> FALSE, ptr |-> ptr, len |-> len, reads |-> r.reads]
        ELSE [ok |-> TRUE, ptr |-> r.ptr, len |-> r.len, reads |-> r.reads]

(***************************************************************************)
(* dns_chnip_check (dns.c 172-219).                                        *)
(***************************************************************************)
\* lines 177-178: the distance from the header to the answer section
answer_offset(namelen) == SIZEOF_dns_header_t + namelen + SIZEOF_dns_query_t

\* line 186
rclass_ok(b, rec) == ntohs(b, rec + 2) = DNS_CLASS_INTERNET

\* line 193
\* (variant: the check missing)
record_fits_any(len, recordlen) == TRUE
record_fits(len, recordlen) == len >= recordlen

\* lines 200 and 206
\* (variant: the checks missing)
rdatalen_ok_any(rtype, rdatalen) == TRUE
rdatalen_ok(rtype, rdatalen) ==
    IF rtype = DNS_RECORD_TYPE_A THEN rdatalen = IPV4_BINADDR_LEN
    ELSE rdatalen = IPV6_BINADDR_LEN

\* lines 199 and 205: the record types that end the scan
\* (variant: the AAAA case missing)
is_addr_type_a_only(rtype) == rtype = DNS_RECORD_TYPE_A
is_addr_type(rtype) == rtype \in {DNS_RECORD_TYPE_A, DNS_RECORD_TYPE_AAAA}

\* lines 204 and 210: the family flag passed to ipset_addr_is_exists
ipset_is_ipv4(rtype) == rtype = DNS_RECORD_TYPE_A

\* lines 182-214: one iteration of the loop.  kind is "bad" (return
\* DNS_IPCHK_BAD_PACKET), "addr" (ask the ipset and return) or "next".
chnip_record(b, ptr, len) ==
    LET sk == skip_name(b, ptr, len)
        rec == sk.ptr
        rdatalen == ntohs(b, rec + 8)
        recordlen == SIZEOF_dns_record_t + rdatalen
        rtype == ntohs(b, rec)
        none == [rdata |-> <<>>, ipv4 |-> FALSE]
        Step(kind, p, l, rd, q) ==
            [kind |-> kind, ptr |-> p, len |-> l, reads |-> rd, query |-> q]
        rd_class == sk.reads \cup {rec + 2, rec + 3}
        rd_len == rd_class \cup {rec + 8, rec + 9}
        rd_type == rd_len \cup {rec, rec + 1}
    IN  IF ~sk.ok THEN Step("bad", ptr, len, sk.reads, none)
        ELSE IF ~rclass_ok(b, rec) THEN Step("bad", sk.ptr, sk.len, rd_class, none)
        ELSE IF ~record_fits(sk.len, recordlen)
        THEN Step("bad", sk.ptr, sk.len, rd_len, none)
        ELSE IF is_addr_type(rtype)
        THEN IF ~rdatalen_ok(rtype, rdatalen)
             THEN Step("bad", sk.ptr, sk.len, rd_type, none)
             ELSE Step("addr", sk.ptr, sk.len,
                       rd_type \cup {rec + SIZEOF_dns_record_t + k - 1 : k \in 1..rdatalen},
                       [rdata |-> Slice(b, rec + SIZEOF_dns_record_t, rdatalen),
                        ipv4 |-> ipset_is_ipv4(rtype)])
        ELSE Step("next", sk.ptr + recordlen, sk.len - recordlen, rd_type, none)

(***************************************************************************)
(* The calls a caller makes.                                               *)
(***************************************************************************)
\* dns_query_check(buf, len, name_buf or NULL, &slot or NULL)
QueryCheck ==
    /\ pc = "start"
    /\ \E nb \in BOOLEAN, pn \in BOOLEAN :
         LET r == dns_query_check(buf, Len(buf), nb, pn, slot)
         IN  /\ is_query' = TRUE
             /\ name_buf' = nb
             /\ p_namelen' = pn
             /\ verdict' = r.ok
             /\ out' = r.out
             /\ slot' = r.slot
             /\ reads' = r.reads
             /\ writes' = r.writes
    /\ pc' = "checked"
    /\ UNCHANGED <<buf, junk, cursor, rem, i, answer_count, result, queries>>

\* dns_reply_check(buf, len, name_buf or NULL, &slot or NULL)
ReplyCheck ==
    /\ pc = "start"
    /\ \E nb \in BOOLEAN, pn \in BOOLEAN :
         LET r == dns_reply_check(buf, Len(buf), nb, pn, slot)
         IN  /\ is_query' = FALSE
             /\ name_buf' = nb
             /\ p_namelen' = pn
             /\ verdict' = r.ok
             /\ out' = r.out
             /\ slot' = r.slot
             /\ reads' = r.reads
             /\ writes' = r.writes
    /\ pc' = "checked"
    /\ UNCHANGED <<buf, junk, cursor, rem, i, answer_count, result, queries>>

\* dns_chnip_check(buf, len, namelen) on a reply that dns_reply_check
\* accepted, with the namelen it reported: lines 173-178
ChnipCall ==
    /\ pc = "checked"
    /\ ~is_query /\ verdict /\ p_namelen
    /\ answer_count' = ntohs(buf, 6)
    /\ cursor' = answer_offset(slot)
    /\ rem' = Len(buf) - answer_offset(slot)
    /\ i' = 0
    /\ reads' = reads \cup {6, 7}
    /\ pc' = "scan"
    /\ UNCHANGED <<buf, junk, is_query, name_buf, p_namelen, out, slot, verdict,
                   writes, result, queries>>

\* one iteration of the loop at line 181; the ipset's answer is the
\* collaborator's, so either answer is possible
ChnipRecord ==
    /\ pc = "scan"
    /\ i < answer_count
    /\ LET st == chnip_record(buf, cursor, rem)
       IN  /\ reads' = reads \cup st.reads
           /\ cursor' = st.ptr
           /\ rem' = st.len
           /\ CASE st.kind = "bad" ->
                     /\ result' = DNS_IPCHK_BAD_PACKET
                     /\ pc' = "done"
                     /\ UNCHANGED <<i, queries>>
                [] st.kind = "addr" ->
                     \E member \in BOOLEAN :
                        /\ queries' = Append(queries,
                               [rdata |-> st.query.rdata, ipv4 |-> st.query.ipv4,
                                member |-> member])
                        /\ result' = IF member THEN DNS_IPCHK_IS_CHNIP
                                     ELSE DNS_IPCHK_NOT_CHNIP
                        /\ pc' = "done"
                        /\ UNCHANGED i
                [] OTHER ->
                     /\ i' = i + 1
                     /\ UNCHANGED <<pc, result, queries>>
    /\ UNCHANGED <<buf, junk, is_query, name_buf, p_namelen, out, slot, verdict,
                   writes, answer_count>>

\* line 218: the loop ran out of answers
ChnipNotFound ==
    /\ pc = "scan"
    /\ i >= answer_count
    /\ result' = DNS_IPCHK_NOT_FOUND
    /\ pc' = "done"
    /\ UNCHANGED <<buf, junk, is_query, name_buf, p_namelen, out, slot, verdict,
                   reads, writes, cursor, rem, i, answer_count, queries>>

\* decode_name(out, buf, Len(buf)) on its own
DecodeCall ==
    /\ pc = "decode_call"
    /\ LET r == decode_name(buf, 0, Len(buf))
       IN  /\ verdict' = r.ok
           /\ out' = r.out
           /\ reads' = r.reads
           /\ writes' = r.writes
    /\ pc' = "decoded"
    /\ UNCHANGED <<buf, junk, is_query, name_buf, p_namelen, slot, cursor, rem,
                   i, answer_count, result, queries>>

\* skip_name(&ptr, &len) on its own, ptr = buf + cursor and len = rem
SkipCall ==
    /\ pc = "skip_call"
    /\ LET r == skip_name(buf, cursor, rem)
       IN  /\ verdict' = r.ok
           /\ cursor' = r.ptr
           /\ rem' = r.len
           /\ reads' = r.reads
    /\ pc' = "skipped"
    /\ UNCHANGED <<buf, junk, is_query, name_buf, p_namelen, out, slot, writes,
                   i, answer_count, result, queries>>

(***************************************************************************)
(* Inputs.                                                                 *)
(***************************************************************************)
MaxRecords == 2
MaxDecodeLen == 4
MaxSkipLen == 3

JunkBytes == {0, 255}

U16(n) == <<n \div 256, n % 256>>
Fill(n, x) == [k \in 1..n |-> x]
Label(n) == <<n>> \o Fill(n, 97)
SeqsUpTo(S, n) == UNION {[1..k -> S] : k \in 0..n}

RECURSIVE Flatten(_)
Flatten(ss) == IF ss = <<>> THEN <<>> ELSE Head(ss) \o Flatten(Tail(ss))

Header(flags, qd, an) == <<171, 205, flags, 0>> \o U16(qd) \o U16(an) \o <<0, 0, 0, 0>>

Rec(name, rtype, rclass, rdatalen, rdata) ==
    name \o U16(rtype) \o U16(rclass) \o <<0, 0, 1, 44>> \o U16(rdatalen) \o rdata

PTR == <<192, 12>>
Name255 == Label(63) \o Label(63) \o Label(63) \o Label(61) \o <<0>>
Name256 == Label(63) \o Label(63) \o Label(63) \o Label(62) \o <<0>>

\* question names: root, a, a.bb, a label overrunning the name, a label
\* length of 64, a leftover byte, no terminator, a compression pointer,
\* a 63-byte label, and names of 255 and 256 bytes
QNames ==
    { <<0>>, <<1, 97, 0>>, <<1, 97, 2, 98, 98, 0>>, <<3, 97, 0>>, <<64, 97, 0>>,
      <<1, 97, 98, 0>>, <<1, 97, 1>>, PTR, Label(63) \o <<0>>, Name255, Name256 }

QTails == { <<0, 1, 0, 1>>, <<0, 28, 0, 1>>, <<0, 1, 0, 3>>, <<0, 1, 1, 1>>, <<7, 1>> }

Flags == {0, 128, 136, 129}
QdCounts == {0, 1, 2, 257}

ADDR4 == <<10, 0, 0, 1>>
ADDR6 == <<32, 1, 13, 184>> \o Fill(11, 0) \o <<1>>

\* answer records: A, AAAA, CNAME, and the malformed ones
Records ==
    { Rec(PTR, 1, 1, 4, ADDR4),
      Rec(<<1, 97, 0>>, 28, 1, 16, ADDR6),
      Rec(PTR, 5, 1, 4, <<1, 98, 192, 12>>),
      Rec(<<1, 97, 192, 12>>, 257, 1, 0, <<>>),
      Rec(PTR, 1, 1, 6, ADDR4 \o <<0, 0>>),
      Rec(PTR, 28, 1, 4, ADDR4),
      Rec(<<0>>, 1, 3, 4, ADDR4),
      Rec(<<64, 97, 0>>, 1, 1, 4, ADDR4),
      Rec(PTR, 5, 1, 300, <<1, 98, 0>>) }

Cuts == {0, 1, 11}

Cut(b, n) == SubSeq(b, 1, IF Len(b) > n THEN Len(b) - n ELSE 0)

\* packets that vary the header and the question
PacketsV ==
    { Cut(Header(f, qd, Len(an)) \o qn \o qt \o Flatten(an), c) :
        f \in Flags, qd \in QdCounts, qn \in QNames, qt \in QTails,
        an \in {<<>>, <<Rec(PTR, 1, 1, 4, ADDR4)>>}, c \in {0, 1, 2} }

\* replies that vary the answer section and the answer count
PacketsS ==
    { Cut(Header(128, 1, n) \o <<1, 97, 0>> \o <<0, 1, 0, 1>> \o Flatten(an), c) :
        n \in (0..MaxRecords) \cup {65535},
        an \in SeqsUpTo(Records, MaxRecords), c \in Cuts }

GoodQuery == Header(0, 1, 0) \o <<1, 97, 0>> \o <<0, 1, 0, 1>>

\* buffers too short to hold a packet, and packets around the maximum size
PacketsL ==
    {SubSeq(GoodQuery, 1, n) : n \in 0..Len(GoodQuery)} \cup
    { Header(f, 1, 0) \o qn \o Fill(n - SIZEOF_dns_header_t - Len(qn), x) :
        f \in {0, 128}, qn \in {<<1, 97, 0, 0, 1, 0, 1>>, <<1, 97>>},
        x \in {0, 7}, n \in {DNS_PACKET_MAXSIZE, DNS_PACKET_MAXSIZE + 1} }

Packets == PacketsV \cup PacketsS \cup PacketsL

DecodeAlphabet == {0, 1, 2, 63, 64, 97}
DecodeInputs ==
    SeqsUpTo(DecodeAlphabet, MaxDecodeLen) \cup
    { <<1, 97, 2, 98, 98, 3, 99, 99, 99, 0>>,
      Label(63) \o <<0>>, Label(63) \o <<1, 97, 0>>, <<63>> \o Fill(62, 97) \o <<0>>,
      Label(64) \o <<0>>, Name255, Name256, Label(3) \o <<0, 0>>,
      <<1, 97, 2, 98, 98, 3, 99, 99, 99, 7>>, <<1, 97, 64, 97, 0>> }

SkipAlphabet == {0, 1, 2, 63, 64, 191, 192, 255}
SkipTails == {<<>>, Fill(9, 0), Fill(10, 0), Fill(10, 7), Fill(11, 200), Fill(74, 0)}
SkipInputs ==
    { pre \o post : pre \in SeqsUpTo(SkipAlphabet, MaxSkipLen), post \in SkipTails }
    \cup { Label(63) \o <<0>> \o Fill(10, 0), Label(63) \o PTR \o Fill(9, 0),
           Label(63) \o Label(2) \o PTR \o Fill(10, 0) }

(***************************************************************************)
(* Specifications.                                                         *)
(***************************************************************************)
Idle ==
    /\ is_query = FALSE /\ name_buf = FALSE /\ p_namelen = FALSE
    /\ out = <<>> /\ slot = 0 /\ verdict = FALSE
    /\ reads = {} /\ writes = {}
    /\ i = 0 /\ answer_count = 0 /\ result = NO_RESULT /\ queries = <<>>

\* a caller holding a received datagram
Init ==
    /\ buf \in Packets
    /\ junk \in JunkBytes
    /\ pc = "start"
    /\ cursor = 0 /\ rem = 0
    /\ Idle

Next == QueryCheck \/ ReplyCheck \/ ChnipCall \/ ChnipRecord \/ ChnipNotFound

Spec == Init /\ [][Next]_vars

\* decode_name applied to arbitrary input
InitDecode ==
    /\ buf \in DecodeInputs
    /\ junk \in JunkBytes
    /\ pc = "decode_call"
    /\ cursor = 0 /\ rem = 0
    /\ Idle

NextDecode == DecodeCall

SpecDecode == InitDecode /\ [][NextDecode]_vars

\* skip_name applied to arbitrary input
InitSkip ==
    /\ buf \in SkipInputs
    /\ junk \in JunkBytes
    /\ pc = "skip_call"
    /\ cursor \in {0, 1}
    /\ cursor <= Len(buf)
    /\ rem = Len(buf) - cursor
    /\ Idle

NextSkip == SkipCall

SpecSkip == InitSkip /\ [][NextSkip]_vars

(***************************************************************************)
(* Reference definitions the properties are stated against.                *)
(***************************************************************************)
\* s split into (length byte L, L data bytes) with every L in 1..63
RECURSIVE RefLabels(_)
RefLabels(s) ==
    IF s = <<>> THEN [ok |-> TRUE, labels |-> <<>>]
    ELSE LET L == Head(s)
         IN  IF L < 1 \/ L > 63 \/ L > Len(s) - 1
             THEN [ok |-> FALSE, labels |-> <<>>]
             ELSE LET r == RefLabels(SubSeq(s, L + 2, Len(s)))
                  IN  [ok |-> r.ok, labels |-> <<SubSeq(s, 2, L + 1)>> \o r.labels]

\* the labels joined by '.'
RECURSIVE JoinDots(_)
JoinDots(ls) ==
    IF ls = <<>> THEN <<>>
    ELSE IF Len(ls) = 1 THEN ls[1]
    ELSE ls[1] \o <<46>> \o JoinDots(Tail(ls))

\* TRUE when a zero byte follows the header
HasNameEnd(b) == \E z \in 12..(Len(b) - 1) : b[z + 1] = 0

\* offset of the first zero byte after the header
NameEnd(b) ==
    CHOOSE z \in 12..(Len(b) - 1) :
        b[z + 1] = 0 /\ \A k \in 12..(z - 1) : b[k + 1] # 0

\* the conditions under which a packet is to be accepted
RefAccept(b, isq) ==
    /\ Len(b) >= 17 /\ Len(b) <= 1472
    /\ (b[3] >= 128) = ~isq
    /\ (b[3] \div 8) % 16 = 0
    /\ b[5] * 256 + b[6] = 1
    /\ HasNameEnd(b)
    /\ LET namelen == NameEnd(b) - 12 + 1
       IN  /\ namelen >= 1 /\ namelen <= 255
           /\ RefLabels(SubSeq(b, 13, NameEnd(b))).ok
           /\ Len(b) - 12 - namelen >= 4
           /\ b[12 + namelen + 3] * 256 + b[12 + namelen + 4] = 1

\* b with only the QR flag flipped
FlipQR(b) == IF Len(b) >= 3 THEN [b EXCEPT ![3] = (@ + 128) % 256] ELSE b

\* one on-wire name walked from offset p of a region ending at end
RECURSIVE RefWalk(_, _, _)
RefWalk(b, p, end) ==
    IF p >= end THEN [kind |-> "ranoff", end |-> p]
    ELSE LET L == b[p + 1]
         IN  IF L = 0 THEN [kind |-> "zero", end |-> p + 1]
             ELSE IF L >= 192 THEN [kind |-> "ptr", end |-> p + 2]
             ELSE IF L >= 64 THEN [kind |-> "reject", end |-> p]
             ELSE RefWalk(b, p + 1 + L, end)

\* the record at offset p of b: whether its name can be skipped, and then
\* its fixed fields
RefRecord(b, p) ==
    LET w == RefWalk(b, p, Len(b))
        f == w.end
        nameok == w.kind \in {"zero", "ptr"} /\ Len(b) - f >= 10
        rtype == IF nameok THEN b[f + 1] * 256 + b[f + 2] ELSE 0
        rclass == IF nameok THEN b[f + 3] * 256 + b[f + 4] ELSE 0
        rdatalen == IF nameok THEN b[f + 9] * 256 + b[f + 10] ELSE 0
        fits == nameok /\ 10 + rdatalen <= Len(b) - f
        addr == rtype \in {1, 28}
    IN  [nameok |-> nameok, classok |-> nameok /\ rclass = 1, fits |-> fits,
         rtype |-> rtype, rdatalen |-> rdatalen, addr |-> addr,
         sized |-> (rtype = 1 => rdatalen = 4) /\ (rtype = 28 => rdatalen = 16),
         rdata |-> IF fits THEN SubSeq(b, f + 11, f + 10 + rdatalen) ELSE <<>>,
         next |-> f + 10 + rdatalen]

WellFormed(r) == r.nameok /\ r.classok /\ r.fits /\ r.sized

\* the records visited, in wire order: at most n, up to and including the
\* first one that is malformed or an address record
RECURSIVE RefVisit(_, _, _)
RefVisit(b, p, n) ==
    IF n = 0 THEN <<>>
    ELSE LET r == RefRecord(b, p)
         IN  IF ~WellFormed(r) \/ r.addr THEN <<r>>
             ELSE <<r>> \o RefVisit(b, r.next, n - 1)

\* the records dns_chnip_check is to visit in the accepted reply buf
Visited == RefVisit(buf, 12 + (NameEnd(buf) - 12 + 1) + 4, buf[7] * 256 + buf[8])

Last(s) == s[Len(s)]

(***************************************************************************)
(* Properties.                                                             *)
(***************************************************************************)

\* C1: every offset read by check_packet (either direction, with or without
\* a name buffer) and by dns_chnip_check on an accepted reply, rdata handed
\* to the ipset included, lies in [0, packet_len).
C1_NoOutOfBoundsRead == \A r \in reads : r >= 0 /\ r < Len(buf)

\* a scan that handed the last bytes of the buffer to the ipset
C1_Witness ==
    /\ pc = "done" /\ result = DNS_IPCHK_IS_CHNIP /\ name_buf
    /\ (Len(buf) - 1) \in reads
    /\ Len(queries) = 1

\* C2: with a name buffer, check_packet accepts exactly the buffers that
\* meet every listed condition; query and reply validation agree on buffers
\* that differ only in the QR flag, and no buffer passes both.
C2_AcceptsExactly ==
    (pc = "checked" /\ name_buf) =>
        /\ verdict <=> RefAccept(buf, is_query)
        /\ verdict = check_packet(~is_query, FlipQR(buf), Len(buf), TRUE, p_namelen, 0).ok
        /\ verdict => ~check_packet(~is_query, buf, Len(buf), TRUE, p_namelen, 0).ok

\* a reply of exactly the maximum size, accepted
C2_Witness ==
    /\ pc = "checked" /\ name_buf /\ verdict /\ ~is_query
    /\ Len(buf) = DNS_PACKET_MAXSIZE

\* C3: a question name with a label length outside [1, 63], or a label
\* overrunning the name, is rejected whether or not a name buffer is passed.
C3_RejectsBadLabels ==
    (pc = "checked" /\ HasNameEnd(buf) /\ ~RefLabels(SubSeq(buf, 13, NameEnd(buf))).ok)
        => ~verdict

\* C4: decode_name succeeds exactly on inputs that split into labels of
\* 1..63 bytes, and then writes the labels joined by dots, NUL at len-2;
\* at or below the minimum length it writes "." and succeeds.
C4_DecodeMatchesReference ==
    pc = "decoded" =>
        LET len == Len(buf)
            r == RefLabels(SubSeq(buf, 1, len - 1))
        IN  /\ len <= DNS_NAME_ENC_MINLEN => (verdict /\ out = <<46, 0>>)
            /\ (len > DNS_NAME_ENC_MINLEN /\ buf[len] = 0) =>
                  /\ verdict <=> r.ok
                  /\ verdict => /\ out = JoinDots(r.labels) \o <<0>>
                                /\ Len(out) = len - 1
                                /\ out[len - 1] = 0
            /\ buf = <<1, 97, 2, 98, 98, 3, 99, 99, 99, 0>> =>
                  out = <<97, 46, 98, 98, 46, 99, 99, 99, 0>>

\* "\1a\2bb\3ccc\0" decoded to "a.bb.ccc"
C4_Witness ==
    /\ pc = "decoded" /\ verdict
    /\ buf = <<1, 97, 2, 98, 98, 3, 99, 99, 99, 0>>
    /\ out = <<97, 46, 98, 98, 46, 99, 99, 99, 0>>

\* C5: when the validator returns false the namelen slot still holds the
\* value it had before the call (0 here).
C5_NoSlotWriteOnReject == (pc = "checked" /\ ~verdict) => slot = 0

\* C6: for a declared length in [MINLEN, MAXLEN] decode_name reads only
\* input offsets below len and writes only output offsets below
\* max(2, len - 1), hence below DNS_NAME_ENC_MAXLEN - 1.
C6_DecodeStaysInside ==
    (pc = "decoded" /\ Len(buf) >= DNS_NAME_ENC_MINLEN /\ Len(buf) <= DNS_NAME_ENC_MAXLEN) =>
        /\ \A r \in reads : r >= 0 /\ r < Len(buf)
        /\ \A w \in writes : w >= 0 /\ w < Max({2, Len(buf) - 1})
        /\ \A w \in writes : w < DNS_NAME_ENC_MAXLEN - 1

\* a failed decode that had already written a separator
C6_Witness ==
    /\ pc = "decoded" /\ ~verdict
    /\ buf = <<1, 97, 64, 97, 0>>
    /\ 1 \in writes /\ out[2] = 46

\* C7: skip_name succeeds exactly when the name ends on a zero byte or a
\* compression pointer with at least sizeof(dns_record_t) bytes left; the
\* cursor then stands after the name and has advanced by what the
\* remaining length lost.
C7_SkipNameContract ==
    [][pc = "skip_call" =>
        LET w == RefWalk(buf, cursor, cursor + rem)
        IN  /\ verdict' <=> (w.kind \in {"zero", "ptr"} /\ cursor + rem - w.end >= 10)
            /\ verdict' => /\ cursor' = w.end
                           /\ cursor' - cursor = rem - rem'
                           /\ rem' >= SIZEOF_dns_record_t]_vars

\* a 63-byte label, a 2-byte label and a pointer skipped: 64 + 3 + 2 bytes
C7_Witness ==
    /\ pc = "skipped" /\ verdict
    /\ buf = Label(63) \o Label(2) \o PTR \o Fill(10, 0)
    /\ cursor = 69 /\ rem = 10

\* the claim's own reading of well-formed: name skippable, class Internet,
\* fixed fields plus rdata within the remaining bytes
WellFormedBasic(r) == r.nameok /\ r.classok /\ r.fits

\* C8 as stated: when every visited record is well-formed and none is
\* A/AAAA the result is NOT_FOUND and the ipset is never asked; when the
\* first A/AAAA record is well-formed (name, class, fit) the ipset is asked
\* once, with its rdata and its family, the result follows the ipset's
\* answer, and nothing after that record is read.
C8_Original ==
    pc = "done" =>
        LET v == Visited
        IN  /\ (\A k \in 1..Len(v) : WellFormedBasic(v[k]) /\ ~v[k].addr) =>
                  (result = DNS_IPCHK_NOT_FOUND /\ queries = <<>>)
            /\ (v # <<>> /\ Last(v).addr /\ WellFormedBasic(Last(v))) =>
                  /\ Len(queries) = 1
                  /\ queries[1].rdata = Last(v).rdata
                  /\ queries[1].ipv4 = (Last(v).rtype = 1)
                  /\ result = IF queries[1].member THEN DNS_IPCHK_IS_CHNIP
                              ELSE DNS_IPCHK_NOT_CHNIP
                  /\ \A r \in reads : r < Last(v).next

\* C8 (amended): as stated, the first A/AAAA record being required also to
\* declare the rdata length of its type (4 for A, 16 for AAAA); an address
\* record that is well-formed but for its rdata length gives BAD_PACKET
\* without the ipset being asked.
C8_FirstAddressRecordDecides ==
    pc = "done" =>
        LET v == Visited
        IN  /\ (\A k \in 1..Len(v) : WellFormedBasic(v[k]) /\ ~v[k].addr) =>
                  (result = DNS_IPCHK_NOT_FOUND /\ queries = <<>>)
            /\ (v # <<>> /\ Last(v).addr /\ WellFormedBasic(Last(v)) /\ Last(v).sized) =>
                  /\ Len(queries) = 1
                  /\ queries[1].rdata = Last(v).rdata
                  /\ queries[1].ipv4 = (Last(v).rtype = 1)
                  /\ result = IF queries[1].member THEN DNS_IPCHK_IS_CHNIP
                              ELSE DNS_IPCHK_NOT_CHNIP
                  /\ \A r \in reads : r < Last(v).next
            /\ (v # <<>> /\ Last(v).addr /\ WellFormedBasic(Last(v)) /\ ~Last(v).sized) =>
                  (result = DNS_IPCHK_BAD_PACKET /\ queries = <<>>)
            /\ result = DNS_IPCHK_NOT_FOUND => queries = <<>>

\* a CNAME followed by an AAAA record, found in the ipset
C8_Witness ==
    /\ pc = "done" /\ i = 1 /\ result = DNS_IPCHK_IS_CHNIP
    /\ Len(queries) = 1 /\ ~queries[1].ipv4 /\ queries[1].rdata = ADDR6

\* C9: a structurally wrong record (name not skippable, class not Internet,
\* record longer than what remains, A with rdatalen # 4, AAAA with
\* rdatalen # 16) makes the result BAD_PACKET, the ipset not being asked.
C9_BadRecordIsBadPacket ==
    (pc = "done" /\ Visited # <<>> /\ ~WellFormed(Last(Visited))) =>
        (result = DNS_IPCHK_BAD_PACKET /\ queries = <<>>)

\* an A record whose class is Internet and that fits, declaring rdatalen 6
C9_Witness ==
    /\ pc = "done" /\ result = DNS_IPCHK_BAD_PACKET /\ queries = <<>>
    /\ Visited # <<>>
    /\ Last(Visited).rtype = 1 /\ Last(Visited).rdatalen = 6
    /\ Last(Visited).classok /\ Last(Visited).fits

\* C10: an accepted reply's reported namelen is the first zero byte's
\* distance from the header plus one, lies in [MINLEN, MAXLEN], and leaves
\* room for the question record; in dns_chnip_check the remaining length is
\* never negative and cursor + remaining length is the end of the buffer.
C10_HandOff ==
    /\ (pc \in {"checked", "scan", "done"} /\ ~is_query /\ verdict /\ p_namelen) =>
          /\ slot = NameEnd(buf) - 12 + 1
          /\ slot >= DNS_NAME_ENC_MINLEN /\ slot <= DNS_NAME_ENC_MAXLEN
          /\ SIZEOF_dns_header_t + slot + SIZEOF_dns_query_t <= Len(buf)
    /\ pc = "scan" => (rem >= 0 /\ cursor + rem = Len(buf))

\* two records skipped, the loop back at its top with nothing left
C10_Witness == pc = "scan" /\ i = 2 /\ rem = 0 /\ cursor = Len(buf)

====
